---- MODULE Spec2Model ----
(***************************************************************************)
(* A model of the pngme chunk codec: ChunkType (src/src/chunk_type.rs) and *)
(* Chunk (src/src/chunk.rs).  Bytes are naturals 0..255, a byte slice or a *)
(* Vec<u8> is a sequence of bytes, a &str / String is the sequence of its  *)
(* UTF-8 bytes (always well formed, as Rust guarantees).                   *)
(*                                                                         *)
(* The outcome of a call is a record [kind, val]:                          *)
(*   kind = "Ok"    val = the returned value                               *)
(*   kind = "Err"   val = the message of the io::Error returned            *)
(*   kind = "Panic" val = the reason the call unwinds instead of returning *)
(***************************************************************************)
EXTENDS Integers, Sequences, FiniteSets

VARIABLES
    pc,       \* where the caller is: "start", "tag", "chunk", "wire" or "big"
    arg,      \* the bytes the tag was built from
    ctype,    \* the outcome of building the tag
    chunk,    \* the Chunk in hand
    wire,     \* the serialized bytes, as they reach try_from
    tamper,   \* what happened to wire after as_bytes wrote it
    ret,      \* the last call and its outcome
    big_len   \* data.len() of a chunk whose payload is known by its size only

vars == <<pc, arg, ctype, chunk, wire, tamper, ret, big_len>>

-----------------------------------------------------------------------------
(* Bounds of the model. *)

\* longest payload handed to Chunk::new
MaxDataLen == 2
\* longest string (in bytes) handed to ChunkType::from_str
MaxStrLen == 5
\* most bytes dropped from the end of a serialized chunk
MaxCut == 3
\* payload lengths near k * 2^32, k in 0..MaxWraps, offsets 0..MaxOff
MaxWraps == 2
MaxOff == 15

\* bytes of the raw arrays handed to ChunkType::try_from: '1', 'A', 'a', 0xC3
ArrBytes == {49, 65, 97, 195}
\* bytes of the strings handed to ChunkType::from_str: '1', 'A', 'a', and the
\* two bytes 0xC3 0xA9 of U+00E9
StrBytes == {49, 65, 97, 195, 169}
\* bytes of the payloads: 'a', 0xC3, 0xA9
DataBytes == {97, 195, 169}

-----------------------------------------------------------------------------
(* Machine integers.  A u32 is its two 16-bit limbs <<low, high>>, a usize  *)
(* (64 bits) its four limbs, low limb first, so that values of 2^31 and    *)
(* more are kept exactly.                                                  *)

\* 2^16: the number of values of a limb
LIMB == 65536

Ok(v) == [kind |-> "Ok", val |-> v]
Err(m) == [kind |-> "Err", val |-> m]
Panic(m) == [kind |-> "Panic", val |-> m]

\* a ^ b on naturals
RECURSIVE Xor(_, _)
Xor(a, b) ==
    IF a = 0 THEN b
    ELSE IF b = 0 THEN a
    ELSE 2 * Xor(a \div 2, b \div 2) + ((a + b) % 2)

\* the usize of a small natural (the length of a slice or Vec held in memory)
usize_of(n) == << n % LIMB, n \div LIMB, 0, 0 >>

\* the natural of a usize below 2^31
usize_nat(n) == n[1] + n[2] * LIMB

\* n + k on usize, for a small natural k
usize_add(n, k) ==
    LET s1 == n[1] + k
        s2 == n[2] + s1 \div LIMB
        s3 == n[3] + s2 \div LIMB
        s4 == n[4] + s3 \div LIMB
    IN  << s1 % LIMB, s2 % LIMB, s3 % LIMB, s4 % LIMB >>

\* a > b on usize
usize_gt(a, b) ==
    \/ a[4] > b[4]
    \/ a[4] = b[4] /\ a[3] > b[3]
    \/ a[4] = b[4] /\ a[3] = b[3] /\ a[2] > b[2]
    \/ a[4] = b[4] /\ a[3] = b[3] /\ a[2] = b[2] /\ a[1] > b[1]

\* a u32 written low byte first
u32_to_le_bytes(u) ==
    << u[1] % 256, u[1] \div 256, u[2] % 256, u[2] \div 256 >>

\* u32::to_be_bytes
u32_to_be_bytes(u) ==
    << u[2] \div 256, u[2] % 256, u[1] \div 256, u[1] % 256 >>

\* u32::from_be_bytes of a 4-byte slice
u32_from_be_bytes(b) ==
    << b[3] * 256 + b[4], b[1] * 256 + b[2] >>

\* u32 -> usize by `as`: zero-extends
u32_as_usize(u) == << u[1], u[2], 0, 0 >>

\* usize -> u32 by try_into(): fails when the value does not fit
usize_try_into_u32(n) ==
    IF n[3] = 0 /\ n[4] = 0 THEN Ok(<< n[1], n[2] >>) ELSE Err("TryFromIntError")

\* usize -> u32 by `as`: keeps the low 32 bits
usize_as_u32(n) == << n[1], n[2] >>

-----------------------------------------------------------------------------
(* UTF-8 (core::str::from_utf8, String::from_utf8, str::chars). *)

IsCont(b) == b \in 128..191

\* the number of bytes of the well-formed scalar value starting at bs[i], or 0
Utf8Width(bs, i) ==
    LET b == bs[i]
        n == Len(bs)
        second(lo, hi) == i + 1 <= n /\ bs[i + 1] \in lo..hi
        cont(k) == i + k <= n /\ IsCont(bs[i + k])
    IN  IF b < 128 THEN 1
        ELSE IF b \in 194..223 THEN (IF cont(1) THEN 2 ELSE 0)
        ELSE IF b = 224 THEN (IF second(160, 191) /\ cont(2) THEN 3 ELSE 0)
        ELSE IF b = 237 THEN (IF second(128, 159) /\ cont(2) THEN 3 ELSE 0)
        ELSE IF b \in 225..239 THEN (IF cont(1) /\ cont(2) THEN 3 ELSE 0)
        ELSE IF b = 240 THEN (IF second(144, 191) /\ cont(2) /\ cont(3) THEN 4 ELSE 0)
        ELSE IF b = 244 THEN (IF second(128, 143) /\ cont(2) /\ cont(3) THEN 4 ELSE 0)
        ELSE IF b \in 241..243 THEN (IF cont(1) /\ cont(2) /\ cont(3) THEN 4 ELSE 0)
        ELSE 0

\* the scalar value of the w well-formed bytes starting at bs[i]
Utf8Scalar(bs, i, w) ==
    IF w = 1 THEN bs[i]
    ELSE IF w = 2 THEN (bs[i] - 192) * 64 + (bs[i + 1] - 128)
    ELSE IF w = 3 THEN ((bs[i] - 224) * 64 + (bs[i + 1] - 128)) * 64 + (bs[i + 2] - 128)
    ELSE (((bs[i] - 240) * 64 + (bs[i + 1] - 128)) * 64 + (bs[i + 2] - 128)) * 64
         + (bs[i + 3] - 128)

RECURSIVE Utf8ValidFrom(_, _)
Utf8ValidFrom(bs, i) ==
    IF i > Len(bs) THEN TRUE
    ELSE LET w == Utf8Width(bs, i)
         IN  IF w = 0 THEN FALSE ELSE Utf8ValidFrom(bs, i + w)

Utf8Valid(bs) == Utf8ValidFrom(bs, 1)

\* core::str::from_utf8 / String::from_utf8: the same bytes, checked
from_utf8(bs) ==
    IF Utf8Valid(bs) THEN Ok(bs) ELSE Err("Utf8Error")

\* str::chars of a well-formed string: its scalar values in order
RECURSIVE CharsFrom(_, _)
CharsFrom(s, i) ==
    IF i > Len(s) THEN << >>
    ELSE LET w == Utf8Width(s, i)
         IN  << Utf8Scalar(s, i, w) >> \o CharsFrom(s, i + w)

chars(s) == CharsFrom(s, 1)

\* str::is_ascii
is_ascii(s) == \A i \in 1..Len(s) : s[i] < 128

\* u8::is_ascii_uppercase / u8::is_ascii_lowercase
is_ascii_uppercase(b) == b \in 65..90
is_ascii_lowercase(b) == b \in 97..122

\* char::is_alphabetic (the Unicode Alphabetic property) for the scalar values
\* U+0000..U+024F; the inputs of the model decode to no scalar value above.
is_alphabetic(c) ==
    \/ c \in 65..90
    \/ c \in 97..122
    \/ c \in {170, 181, 186}
    \/ c \in 192..214
    \/ c \in 216..246
    \/ c \in 248..591

-----------------------------------------------------------------------------
(* CRC-32 (crc32fast::Hasher): the reflected polynomial 0xEDB88320, register *)
(* preset to 0xFFFFFFFF, result complemented.                               *)

\* 0xEDB88320 as a u32
CRC32_POLY == << 33568, 60856 >>
\* 0xFFFFFFFF as a u32
U32_MAX == << 65535, 65535 >>

\* a ^ b on u32
u32_xor(a, b) == << Xor(a[1], b[1]), Xor(a[2], b[2]) >>

\* a >> k on u32, 1 <= k <= 16
u32_shr(a, k) ==
    << a[1] \div (2 ^ k) + (a[2] % (2 ^ k)) * (2 ^ (16 - k)), a[2] \div (2 ^ k) >>

\* k shift-and-reduce rounds on register c
RECURSIVE CrcRounds(_, _)
CrcRounds(c, k) ==
    IF k = 0 THEN c
    ELSE CrcRounds(IF c[1] % 2 = 1 THEN u32_xor(u32_shr(c, 1), CRC32_POLY)
                                   ELSE u32_shr(c, 1),
                   k - 1)

crc_table == [n \in 0..255 |-> CrcRounds(<< n, 0 >>, 8)]

\* Hasher::update over bs[i..]
RECURSIVE hasher_update(_, _, _)
hasher_update(state, bs, i) ==
    IF i > Len(bs) THEN state
    ELSE hasher_update(u32_xor(crc_table[Xor(state[1] % 256, bs[i])],
                               u32_shr(state, 8)),
                       bs, i + 1)

\* Hasher::new(); update(bs); finalize()
crc32(bs) == u32_xor(hasher_update(U32_MAX, bs, 1), U32_MAX)

-----------------------------------------------------------------------------
(* ChunkType (src/src/chunk_type.rs). *)

\* ChunkType::bytes
bytes(ct) == ct.data

is_critical(ct) == is_ascii_uppercase(ct.data[1])

is_public(ct) == is_ascii_uppercase(ct.data[2])

is_reserved_bit_valid(ct) == is_ascii_uppercase(ct.data[3])

is_safe_to_copy(ct) == is_ascii_lowercase(ct.data[4])

\* ChunkType::is_valid
is_valid(ct) ==
    IF ~is_reserved_bit_valid(ct) THEN FALSE
    ELSE LET orig_str == from_utf8(ct.data)
         IN  IF orig_str.kind = "Ok" THEN is_ascii(orig_str.val) ELSE FALSE

\* TryFrom<[u8; 4]> for ChunkType
ChunkType_try_from(value) == Ok([data |-> value])

\* FromStr for ChunkType; s.len() counts bytes
from_str(s) ==
    IF Len(s) # 4 THEN Err("wrong_size")
    ELSE IF ~(\A i \in DOMAIN chars(s) : is_alphabetic(chars(s)[i]))
         THEN Err("provided string is not ASCII/letters")
    ELSE Ok([data |-> s])

-----------------------------------------------------------------------------
(* Chunk (src/src/chunk.rs). *)

\* Chunk::new
new(chunk_type, data) == [chunk_type |-> chunk_type, data |-> data]

\* Chunk::length: data.len().try_into().unwrap()
length_of(n) ==
    LET r == usize_try_into_u32(n)
    IN  IF r.kind = "Ok" THEN r ELSE Panic("unwrap on TryFromIntError")

length(c) == length_of(usize_of(Len(c.data)))

\* a checksum that leaves the tag out
crc_data_only(c) == crc32(c.data)

\* Chunk::crc
crc(c) == crc32(bytes(c.chunk_type) \o c.data)

\* Chunk::data_as_string
data_as_string(c) ==
    IF is_valid(c.chunk_type)
    THEN LET s == from_utf8(c.data)
         IN  IF s.kind = "Ok" THEN Ok(s.val) ELSE Panic("unwrap on FromUtf8Error")
    ELSE Err("invalid chunk")

\* the first four bytes as_bytes writes: (data.len() as u32).to_be_bytes()
length_field_of(n) == u32_to_be_bytes(usize_as_u32(n))

\* a serializer that writes the length field low byte first
as_bytes_le(c) ==
    u32_to_le_bytes(usize_as_u32(usize_of(Len(c.data))))
        \o bytes(c.chunk_type) \o c.data \o u32_to_be_bytes(crc(c))

\* a serializer that checksums the length field too
as_bytes_crc_all(c) ==
    length_field_of(usize_of(Len(c.data))) \o bytes(c.chunk_type) \o c.data
        \o u32_to_be_bytes(crc32(length_field_of(usize_of(Len(c.data)))
                                  \o bytes(c.chunk_type) \o c.data))

\* Chunk::as_bytes
as_bytes(c) ==
    length_field_of(usize_of(Len(c.data))) \o bytes(c.chunk_type) \o c.data
        \o u32_to_be_bytes(crc(c))

\* the steps of try_from after the tag is accepted, without the CRC comparison
parse_body_no_crc(value, ctype_ok) ==
    LET length_field == u32_as_usize(u32_from_be_bytes(SubSeq(value, 1, 4)))
    IN  IF usize_gt(usize_add(length_field, 12), usize_of(Len(value)))
        THEN Panic("range end index out of range for slice")
        ELSE Ok([chunk_type |-> ctype_ok,
                 data |-> SubSeq(value, 9, 8 + usize_nat(length_field))])

\* try_from, lines 84-93: the length field, the payload, the CRC comparison
parse_body(value, ctype_ok) ==
    LET length_field == u32_as_usize(u32_from_be_bytes(SubSeq(value, 1, 4)))
    IN  IF usize_gt(usize_add(length_field, 8), usize_of(Len(value)))
        THEN Panic("range end index out of range for slice")
        ELSE LET lf == usize_nat(length_field)
                 data == SubSeq(value, 9, 8 + lf)
                 c == [chunk_type |-> ctype_ok, data |-> data]
             IN  IF usize_gt(usize_add(length_field, 12), usize_of(Len(value)))
                 THEN Panic("range end index out of range for slice")
                 ELSE IF crc(c) # u32_from_be_bytes(SubSeq(value, 9 + lf, 12 + lf))
                 THEN Err("invalid CRC provided")
                 ELSE Ok(c)

\* TryFrom<&[u8]> for Chunk
try_from(value) ==
    IF Len(value) < 12 THEN Err("invalid length")
    ELSE LET type_bytes == SubSeq(value, 5, 8)
             s == from_utf8(type_bytes)
         IN  IF s.kind # "Ok" THEN Panic("unwrap on Utf8Error")
             ELSE LET r == from_str(s.val)
                  IN  IF r.kind # "Ok" THEN r
                      ELSE IF ~is_valid(r.val) THEN Err("invalid chunk type")
                      ELSE parse_body(value, r.val)

-----------------------------------------------------------------------------
(* The callers of the codec: one scenario per behaviour.  A tag is built    *)
(* from text or from a raw array, wrapped in a chunk with a payload, the    *)
(* chunk is measured, read as text or serialized, and the serialized bytes, *)
(* possibly damaged on the way, are parsed back.                            *)

NoType == [kind |-> "None", val |-> << >>]
NoChunk == [chunk_type |-> [data |-> << >>], data |-> << >>]
NoTamper == [kind |-> "none", pos |-> 0, bit |-> 0]
NoRet == [op |-> "none", res |-> Ok(<< >>)]

\* the strings handed to from_str: every well-formed UTF-8 string over StrBytes
StrInputs ==
    {s \in UNION {[1..n -> StrBytes] : n \in 0..MaxStrLen} : Utf8Valid(s)}

Arrays == [1..4 -> ArrBytes]

Payloads == UNION {[1..n -> DataBytes] : n \in 0..MaxDataLen}

\* payload sizes that cannot be built byte by byte: around each multiple of 2^32
BigLens ==
    {<< d, 0, k, 0 >> : k \in 0..MaxWraps, d \in 0..MaxOff}
        \cup {<< LIMB - 1, LIMB - 1, k - 1, 0 >> : k \in 1..MaxWraps}

Init ==
    /\ pc = "start"
    /\ arg = << >>
    /\ ctype = NoType
    /\ chunk = NoChunk
    /\ wire = << >>
    /\ tamper = NoTamper
    /\ ret = NoRet
    /\ big_len = usize_of(0)

\* ChunkType::from_str(s)
FromStr(s) ==
    /\ pc = "start"
    /\ pc' = "tag"
    /\ arg' = s
    /\ ctype' = from_str(s)
    /\ ret' = [op |-> "from_str", res |-> from_str(s)]
    /\ UNCHANGED <<chunk, wire, tamper, big_len>>

\* ChunkType::try_from(value)
TryFromArray(value) ==
    /\ pc = "start"
    /\ pc' = "tag"
    /\ arg' = value
    /\ ctype' = ChunkType_try_from(value)
    /\ ret' = [op |-> "ChunkType::try_from", res |-> ChunkType_try_from(value)]
    /\ UNCHANGED <<chunk, wire, tamper, big_len>>

\* chunk_type.is_valid()
IsValid ==
    /\ pc = "tag"
    /\ ctype.kind = "Ok"
    /\ ret' = [op |-> "is_valid", res |-> Ok(is_valid(ctype.val))]
    /\ UNCHANGED <<pc, arg, ctype, chunk, wire, tamper, big_len>>

\* Chunk::new(chunk_type, data); the tag moves into the chunk
New(data) ==
    /\ pc = "tag"
    /\ ctype.kind = "Ok"
    /\ pc' = "chunk"
    /\ chunk' = new(ctype.val, data)
    /\ arg' = << >>
    /\ ctype' = NoType
    /\ ret' = [op |-> "new", res |-> Ok(<< >>)]
    /\ UNCHANGED <<wire, tamper, big_len>>

\* chunk.length()
Length ==
    /\ pc = "chunk"
    /\ ret' = [op |-> "length", res |-> length(chunk)]
    /\ UNCHANGED <<pc, arg, ctype, chunk, wire, tamper, big_len>>

\* chunk.data_as_string()
DataAsString ==
    /\ pc = "chunk"
    /\ ret' = [op |-> "data_as_string", res |-> data_as_string(chunk)]
    /\ UNCHANGED <<pc, arg, ctype, chunk, wire, tamper, big_len>>

\* chunk.as_bytes()
AsBytes ==
    /\ pc = "chunk"
    /\ pc' = "wire"
    /\ wire' = as_bytes(chunk)
    /\ ret' = [op |-> "as_bytes", res |-> Ok(as_bytes(chunk))]
    /\ UNCHANGED <<arg, ctype, chunk, tamper, big_len>>

\* one bit of a serialized chunk that parses is flipped before it is read back
FlipBit ==
    /\ pc = "wire"
    /\ tamper.kind = "none"
    /\ try_from(wire).kind = "Ok"
    /\ \E i \in 1..Len(wire), k \in 0..7 :
          /\ wire' = [wire EXCEPT ![i] = Xor(@, 2 ^ k)]
          /\ tamper' = [kind |-> "flip", pos |-> i, bit |-> k]
    /\ ret' = NoRet
    /\ UNCHANGED <<pc, arg, ctype, chunk, big_len>>

\* the last bytes of a serialized chunk that parses are lost
Truncate ==
    /\ pc = "wire"
    /\ tamper.kind = "none"
    /\ try_from(wire).kind = "Ok"
    /\ \E n \in 1..MaxCut :
          /\ wire' = SubSeq(wire, 1, Len(wire) - n)
          /\ tamper' = [kind |-> "cut", pos |-> Len(wire) - n + 1, bit |-> 0]
    /\ ret' = NoRet
    /\ UNCHANGED <<pc, arg, ctype, chunk, big_len>>

\* Chunk::try_from(wire)
TryFrom ==
    /\ pc = "wire"
    /\ ret' = [op |-> "try_from", res |-> try_from(wire)]
    /\ UNCHANGED <<pc, arg, ctype, chunk, wire, tamper, big_len>>

\* Chunk::new with a payload of n bytes, known by its size only
NewBig(n) ==
    /\ pc = "start"
    /\ pc' = "big"
    /\ big_len' = n
    /\ ret' = [op |-> "new", res |-> Ok(<< >>)]
    /\ UNCHANGED <<arg, ctype, chunk, wire, tamper>>

\* length() of that chunk
LengthBig ==
    /\ pc = "big"
    /\ ret' = [op |-> "length", res |-> length_of(big_len)]
    /\ UNCHANGED <<pc, arg, ctype, chunk, wire, tamper, big_len>>

\* the length field as_bytes() writes for that chunk
AsBytesBig ==
    /\ pc = "big"
    /\ ret' = [op |-> "as_bytes", res |-> Ok(length_field_of(big_len))]
    /\ UNCHANGED <<pc, arg, ctype, chunk, wire, tamper, big_len>>

Next ==
    \/ \E s \in StrInputs : FromStr(s)
    \/ \E value \in Arrays : TryFromArray(value)
    \/ IsValid
    \/ \E data \in Payloads : New(data)
    \/ Length
    \/ DataAsString
    \/ AsBytes
    \/ FlipBit
    \/ Truncate
    \/ TryFrom
    \/ \E n \in BigLens : NewBig(n)
    \/ LengthBig
    \/ AsBytesBig

Spec == Init /\ [][Next]_vars

-----------------------------------------------------------------------------
(* The vocabulary of the properties, stated on bytes alone. *)

AsciiAlpha(b) == b \in 65..90 \/ b \in 97..122

\* 4 ASCII alphabetic bytes, the third one uppercase
ValidTag(t) ==
    /\ Len(t) = 4
    /\ \A i \in 1..4 : AsciiAlpha(t[i])
    /\ t[3] \in 65..90

\* the big-endian length field of w, when below 2^24
DeclaredLen(w) == (w[2] * 256 + w[3]) * 256 + w[4]

\* 8 + declared_length + 4 <= w.len()
DeclaredFits(w) == w[1] = 0 /\ 12 + DeclaredLen(w) <= Len(w)

\* the number of characters of a well-formed UTF-8 string
CharCount(s) == Cardinality({i \in 1..Len(s) : s[i] \notin 128..191})

\* the bytes w[i..i+3] are the big-endian form of the u32 u
IsBigEndianOf(w, i, u) ==
    /\ \A j \in i..(i + 3) : w[j] \in 0..255
    /\ w[i] * 256 + w[i + 1] = u[2]
    /\ w[i + 2] * 256 + w[i + 3] = u[1]

CrcMismatch == Err("invalid CRC provided")

-----------------------------------------------------------------------------
(* C1: round trip.  For a chunk with a valid tag (4 ASCII letters, the     *)
(* third uppercase), parsing its serialized bytes succeeds and gives a     *)
(* chunk with the same tag bytes, the same data and the same checksum.     *)
C1_RoundTrip ==
    (ret.op = "try_from" /\ tamper.kind = "none" /\ ValidTag(chunk.chunk_type.data))
        => /\ ret.res.kind = "Ok"
           /\ ret.res.val.chunk_type.data = chunk.chunk_type.data
           /\ ret.res.val.data = chunk.data
           /\ crc(ret.res.val) = crc(chunk)

C1_Witness ==
    /\ ret.op = "try_from"
    /\ tamper.kind = "none"
    /\ ValidTag(chunk.chunk_type.data)
    /\ Len(chunk.data) = 2
    /\ ret.res.kind = "Ok"
    /\ ret.res.val.data = chunk.data

(* C2: a slice of at least 12 bytes with a valid tag whose declared length *)
(* does not fit in it is rejected with an error value, never a panic and   *)
(* never a chunk.                                                          *)
C2_TruncatedRejected ==
    (/\ ret.op = "try_from"
     /\ Len(wire) >= 12
     /\ ValidTag(SubSeq(wire, 5, 8))
     /\ ~DeclaredFits(wire))
        => ret.res.kind = "Err"

(* C3: a slice of at least 12 bytes whose bytes 4..8 are not 4 ASCII       *)
(* letters is rejected with an error value, never a panic and never a      *)
(* chunk.                                                                  *)
C3_MalformedTagRejected ==
    (/\ ret.op = "try_from"
     /\ Len(wire) >= 12
     /\ ~(\A i \in 5..8 : AsciiAlpha(wire[i])))
        => ret.res.kind = "Err"

(* C4 as stated: flipping any single bit of the type or data region of a   *)
(* serialized chunk with a valid tag makes parsing fail with the CRC       *)
(* mismatch error.                                                         *)
C4_AnyFlipIsCrcMismatch ==
    (/\ ret.op = "try_from"
     /\ tamper.kind = "flip"
     /\ tamper.pos \in 5..(8 + Len(chunk.data)))
        => ret.res = CrcMismatch

(* C4 as amended: flipping any single bit of the data region makes parsing *)
(* fail with the CRC mismatch error; flipping any single bit of the type   *)
(* region never yields a chunk, and yields the CRC mismatch error exactly  *)
(* when the damaged tag is still valid (otherwise the tag is refused       *)
(* before the checksum is looked at).                                      *)
C4_TamperDetection ==
    (/\ ret.op = "try_from"
     /\ tamper.kind = "flip"
     /\ tamper.pos \in 5..(8 + Len(chunk.data)))
        => IF tamper.pos > 8
           THEN ret.res = CrcMismatch
           ELSE /\ ret.res.kind # "Ok"
                /\ (ret.res = CrcMismatch) <=> ValidTag(SubSeq(wire, 5, 8))

C4_Witness ==
    /\ ret.op = "try_from"
    /\ tamper.kind = "flip"
    /\ tamper.pos \in 9..(8 + Len(chunk.data))
    /\ wire # as_bytes(chunk)
    /\ SubSeq(wire, 1, 8) = SubSeq(as_bytes(chunk), 1, 8)
    /\ ret.res = CrcMismatch

(* C5: for a slice that passes the minimum-length, tag and declared-length *)
(* checks, a chunk is returned only if the 4 bytes after the payload are   *)
(* the big-endian CRC32 of tag and payload, and it then carries exactly    *)
(* that tag and payload; if they differ the CRC mismatch error is returned.*)
C5_ChecksumVerified ==
    (/\ ret.op = "try_from"
     /\ Len(wire) >= 12
     /\ ValidTag(SubSeq(wire, 5, 8))
     /\ DeclaredFits(wire))
        => LET n == DeclaredLen(wire)
               matches == IsBigEndianOf(wire, 9 + n, crc32(SubSeq(wire, 5, 8 + n)))
           IN  /\ ret.res.kind = "Ok"
                    => /\ matches
                       /\ ret.res.val.chunk_type.data = SubSeq(wire, 5, 8)
                       /\ ret.res.val.data = SubSeq(wire, 9, 8 + n)
               /\ ~matches => ret.res = CrcMismatch

\* the stored CRC differs from the computed one in its lowest bit
C5_Witness ==
    /\ ret.op = "try_from"
    /\ tamper.kind = "flip"
    /\ tamper.pos = Len(wire)
    /\ tamper.bit = 0
    /\ Len(chunk.data) > 0
    /\ DeclaredFits(wire)
    /\ ret.res = CrcMismatch

(* C6: is_valid() is true if and only if all 4 bytes are ASCII letters and *)
(* the third is uppercase, whether the tag was built from a raw array or   *)
(* from text.                                                              *)
C6_TagValidity ==
    ret.op = "is_valid" => (ret.res.val <=> ValidTag(ctype.val.data))

(* C7: from_str(s) fails whenever s is not exactly 4 characters or holds a *)
(* non-alphabetic character; on success it stores the 4 bytes of s, one    *)
(* alphabetic character per byte.                                          *)
C7_ConstructFromText ==
    ret.op = "from_str"
        => /\ (\/ CharCount(arg) # 4
               \/ \E i \in DOMAIN chars(arg) : ~is_alphabetic(chars(arg)[i]))
                  => ret.res.kind = "Err"
           /\ ret.res.kind = "Ok"
                  => /\ ret.res.val.data = arg
                     /\ Len(arg) = 4
                     /\ \A i \in 1..4 : is_alphabetic(arg[i])

(* C8: data_as_string returns an error when is_valid() is false or the     *)
(* payload is not valid UTF-8, and the payload as text otherwise; it never *)
(* panics.                                                                 *)
C8_DataAsString ==
    ret.op = "data_as_string"
        => IF ~is_valid(chunk.chunk_type) \/ ~Utf8Valid(chunk.data)
           THEN ret.res.kind = "Err"
           ELSE ret.res = Ok(chunk.data)

(* C9: for any tag, valid or not, and a payload whose size fits in 32 bits,*)
(* as_bytes() is the 4-byte big-endian payload size, the 4 tag bytes, the  *)
(* payload unchanged, and the 4-byte big-endian CRC32 of tag and payload;  *)
(* its size is 12 + length(), and length() is the payload size.            *)
C9_WireLayout ==
    /\ (pc = "wire" /\ ret.op = "as_bytes")
          => LET w == ret.res.val
                 n == Len(chunk.data)
             IN  /\ Len(w) = 12 + n
                 /\ IsBigEndianOf(w, 1, << n % LIMB, n \div LIMB >>)
                 /\ SubSeq(w, 5, 8) = chunk.chunk_type.data
                 /\ SubSeq(w, 9, 8 + n) = chunk.data
                 /\ IsBigEndianOf(w, 9 + n,
                                  crc32(chunk.chunk_type.data \o chunk.data))
    /\ (pc = "chunk" /\ ret.op = "length")
          => ret.res = Ok(<< Len(chunk.data) % LIMB, Len(chunk.data) \div LIMB >>)
    /\ (pc = "big" /\ big_len[3] = 0 /\ big_len[4] = 0 /\ ret.op = "as_bytes")
          => IsBigEndianOf(ret.res.val, 1, << big_len[1], big_len[2] >>)
    /\ (pc = "big" /\ big_len[3] = 0 /\ big_len[4] = 0 /\ ret.op = "length")
          => ret.res = Ok(<< big_len[1], big_len[2] >>)

C9_Witness ==
    /\ pc = "wire"
    /\ ret.op = "as_bytes"
    /\ ~ValidTag(chunk.chunk_type.data)
    /\ Len(chunk.data) = 2
    /\ Len(wire) = 14
    /\ wire[4] = 2

(* C10: for a payload of 2^32 bytes or more, neither length() nor          *)
(* as_bytes() yields a length reduced modulo 2^32 or crashes: the call     *)
(* reports an error.                                                       *)
C10_NoSilentTruncation ==
    (/\ pc = "big"
     /\ big_len[3] > 0 \/ big_len[4] > 0
     /\ ret.op \in {"length", "as_bytes"})
        => ret.res.kind = "Err"

====
